---- MODULE Spec2Model ----
(***************************************************************************)
(* Conversation memory and context-window budgeting of the RAG assistant:  *)
(* MemoryManager (src/src/rag/memory_manager.py) and the provider dispatch *)
(* of process_query (src/src/rag/llm_query.py); with them the history      *)
(* accessors called on their own, the preferences file of LocalStorage     *)
(* (src/ui/local_storage.py) and the chat sessions of the Streamlit        *)
(* interface (src/ui/components/chat_interface.py) over query_documents    *)
(* (src/src/app.py).                                                       *)
(*                                                                         *)
(* Strings are run-length encoded: a text is a sequence of runs [c, n], n  *)
(* characters of class c, with no two neighbouring runs of one class.      *)
(*   "p"  ordinary prose, four characters to a token                       *)
(*   "x"  dense text (digits, symbols, CJK), one character to a token      *)
(*   "w"  whitespace at the ends of a text, removed by str.strip()         *)
(*   "M"  the characters of the literal "Previous conversation summary"    *)
(*   "R"  the characters of the literal "Your question is too long"        *)
(***************************************************************************)
EXTENDS Integers, Sequences, FiniteSets, TLC

VARIABLES chat_history, pc, call, messages, total_tokens, truncated, target,
          ret, result, llm_called, hist0, prev, last_op, since_clear, trace,
          probe, file, fs, ui, memory

vars == <<chat_history, pc, call, messages, total_tokens, truncated, target,
          ret, result, llm_called, hist0, prev, last_op, since_clear, trace,
          probe, file, fs, ui, memory>>

\* The state of the memory manager and of one call into it.
Manager == <<chat_history, pc, call, messages, total_tokens, truncated, target,
             ret, result, llm_called, hist0, prev, last_op, since_clear, trace>>

\* The preferences file and the chat sessions of the user interface.
Frontend == <<file, fs, ui, memory>>

(* ------------------------------ bounds --------------------------------- *)
MaxTurns == 16

MaxBigTurns == 1

\* The prompts one chat session may submit.
MaxPrompts == 2

(* ------------------------- program constants --------------------------- *)
TOKEN_LIMIT == 8000

RECENT_MESSAGES_LIMIT == 3

QUESTION_THRESHOLD_TENTHS == 2

ReturnArity == 2

UnpackTargets == 3

(* ------------------------------- text ---------------------------------- *)
Max(a, b) == IF a >= b THEN a ELSE b

Min(a, b) == IF a <= b THEN a ELSE b

CeilDiv(a, b) == (a + b - 1) \div b

Run(c, n) == [c |-> c, n |-> n]

Lit(n) == IF n = 0 THEN <<>> ELSE <<Run("p", n)>>

Dense(n) == IF n = 0 THEN <<>> ELSE <<Run("x", n)>>

Blank(n) == IF n = 0 THEN <<>> ELSE <<Run("w", n)>>

Concat(a, b) ==
    IF a = <<>> THEN b
    ELSE IF b = <<>> THEN a
    ELSE IF a[Len(a)].c = b[1].c
         THEN SubSeq(a, 1, Len(a) - 1)
              \o <<Run(b[1].c, a[Len(a)].n + b[1].n)>>
              \o Tail(b)
         ELSE a \o b

RECURSIVE StrLen(_)
StrLen(t) == IF t = <<>> THEN 0 ELSE t[1].n + StrLen(Tail(t))

RECURSIVE Prefix(_, _)
Prefix(t, k) ==
    IF k <= 0 \/ t = <<>> THEN <<>>
    ELSE IF t[1].n <= k THEN <<t[1]>> \o Prefix(Tail(t), k - t[1].n)
    ELSE <<Run(t[1].c, k)>>

Strip(t) ==
    LET a == IF t # <<>> /\ t[1].c = "w" THEN Tail(t) ELSE t
    IN  IF a # <<>> /\ a[Len(a)].c = "w" THEN SubSeq(a, 1, Len(a) - 1) ELSE a

RECURSIVE Join(_, _)
Join(texts, sep) ==
    IF texts = <<>> THEN <<>>
    ELSE IF Len(texts) = 1 THEN texts[1]
    ELSE Concat(Concat(texts[1], sep), Join(Tail(texts), sep))

CharsPerToken(c) == IF c \in {"x", "w"} THEN 1 ELSE 4

RECURSIVE count_tokens(_)
count_tokens(text) ==
    IF text = <<>> THEN 0
    ELSE CeilDiv(text[1].n, CharsPerToken(text[1].c)) + count_tokens(Tail(text))

SummaryMarker == <<Run("M", 29)>>

HasSummaryMarker(text) ==
    \E i \in 1..Len(text) : text[i].c = "M" /\ text[i].n >= StrLen(SummaryMarker)

SummaryPrefix == Concat(SummaryMarker, Lit(2))

ContextTruncatedMarker == Lit(34)

SummaryTruncatedMarker == Lit(34)

NoRelevantInfo == Lit(47)

(* ---------------------------- Python lists ------------------------------ *)
PyIndex(i, n) == IF i < 0 THEN Max(i + n, 0) ELSE Min(i, n)

PySlice(s, i, j) == SubSeq(s, PyIndex(i, Len(s)) + 1, PyIndex(j, Len(s)))

PySliceFrom(s, i) == SubSeq(s, PyIndex(i, Len(s)) + 1, Len(s))

ChatMessage(role, content) == [role |-> role, content |-> content]

RECURSIVE SumTokens(_)
SumTokens(msgs) ==
    IF msgs = <<>> THEN 0
    ELSE count_tokens(msgs[1].content) + SumTokens(Tail(msgs))

(* --------------------------- history store ------------------------------ *)
get_chat_history_token_count(h) == SumTokens(h)

add_message_front(h, role, content) == <<ChatMessage(role, content)>> \o h

add_message(h, role, content) == Append(h, ChatMessage(role, content))

get_recent_messages(h, count) ==
    IF Len(h) >= count THEN PySliceFrom(h, 0 - count) ELSE h

get_older_messages(h, start_idx, end_idx) ==
    IF start_idx >= Len(h) THEN <<>>
    ELSE PySlice(h, Max(0, start_idx), Min(Len(h), end_idx))

\* The two turns of an exchange stored answer first.
add_exchange_answer_first(h, query, response) ==
    add_message(add_message(h, "assistant", response), "user", query)

add_exchange(h, query, response) ==
    add_message(add_message(h, "user", query), "assistant", response)

clear_history_keep_last(h) == PySliceFrom(h, 0 - 2)

clear_history(h) == <<>>

(* ------------------------------ API keys -------------------------------- *)
NoneStr == [some |-> FALSE, text |-> <<>>]

Some(t) == [some |-> TRUE, text |-> t]

Truthy(s) == s.some /\ s.text # <<>>

Providers == {"groq", "openai", "gemini", "deepseek"}

get_key(user_key) ==
    IF Truthy(user_key) /\ Strip(user_key.text) # <<>>
    THEN Some(Strip(user_key.text))
    ELSE NoneStr

(* ------------------------------ summarizer ------------------------------ *)
\* What the provider's chat endpoint sends back for the summarization prompt.
BackendResponse(backend) ==
    CASE backend = "blank" -> Blank(3)
      [] backend = "short" -> Concat(Concat(Blank(1), Lit(600)), Blank(1))
      [] backend = "long"  -> Dense(9000)
      [] OTHER             -> <<>>

summarize_with_model(conversation_text, api_provider, api_key, backend) ==
    IF api_provider \in Providers
    THEN IF ~ get_key(api_key).some THEN NoneStr
         ELSE IF backend = "raise" THEN NoneStr
         ELSE Some(Strip(BackendResponse(backend)))
    ELSE NoneStr

FormatMessage(msg) ==
    Concat(IF msg.role = "user" THEN Lit(6) ELSE Lit(11), msg.content)

Digits(n) == Lit(IF n < 10 THEN 1 ELSE IF n < 100 THEN 2 ELSE 3)

\* The elided middle counted instead of the whole list.
FallbackCount_omitted(formatted_messages) == Len(formatted_messages) - 10

\* The number in "In total: {n} exchanges summarized."
FallbackCount(formatted_messages) == Len(formatted_messages)

\* "\n... [previous exchanges] ..."
ElisionMarker == Lit(29)

\* "\n\nIn total: {count} exchanges summarized."
CountLine(count) == Concat(Concat(Lit(12), Digits(count)), Lit(22))

FallbackSummary(formatted_messages) ==
    IF Len(formatted_messages) > 10
    THEN Concat(Concat(Concat(Concat(SummaryPrefix,
             Join(PySlice(formatted_messages, 0, 5), Lit(1))),
             ElisionMarker),
             Join(PySliceFrom(formatted_messages, 0 - 5), Lit(1))),
             CountLine(FallbackCount(formatted_messages)))
    ELSE Concat(SummaryPrefix, Join(formatted_messages, Lit(1)))

\* An empty model response taken for a summary.
summarize_messages_blank_ok(msgs, api_provider, api_key, backend) ==
    LET formatted_messages == [i \in 1..Len(msgs) |-> FormatMessage(msgs[i])]
        summary == summarize_with_model(Join(formatted_messages, Lit(1)),
                                        api_provider, api_key, backend)
    IN  IF summary.some THEN summary.text ELSE FallbackSummary(formatted_messages)

summarize_messages(msgs, api_provider, api_key, backend) ==
    LET formatted_messages == [i \in 1..Len(msgs) |-> FormatMessage(msgs[i])]
        conversation_text  == Join(formatted_messages, Lit(1))
        summary == summarize_with_model(conversation_text, api_provider,
                                        api_key, backend)
    IN  IF Truthy(summary)
        THEN Concat(SummaryPrefix, summary.text)
        ELSE FallbackSummary(formatted_messages)

(* --------------------------- prepare_context ---------------------------- *)
QueryTooLong_inclusive(query) ==
    count_tokens(query) * 10 >= TOKEN_LIMIT * QUESTION_THRESHOLD_TENTHS

QueryTooLong(query) ==
    count_tokens(query) * 10 > TOKEN_LIMIT * QUESTION_THRESHOLD_TENTHS

UserTurnContent_no_context(context, query) ==
    Concat(Concat(Lit(9), Lit(12)), Concat(query, Lit(139)))

UserTurnContent(context, query) ==
    Concat(Concat(Concat(Concat(Lit(9), context), Lit(12)), query), Lit(139))

SummaryTurn(summary) == ChatMessage("system", Concat(SummaryPrefix, summary))

\* messages kept from one call to the next (a shared default list).
InitialMessages_stale(system_prompt) ==
    ret.messages \o <<ChatMessage("system", system_prompt)>>

InitialMessages(system_prompt) == <<ChatMessage("system", system_prompt)>>

BaselineOlder(h) ==
    IF Len(h) > RECENT_MESSAGES_LIMIT THEN get_older_messages(h, 3, 15) ELSE <<>>

Baseline(h, c) ==
    LET base == InitialMessages(c.system_prompt)
        withHistory ==
            IF Len(h) > 0
            THEN LET recent_messages == get_recent_messages(h, RECENT_MESSAGES_LIMIT)
                     older_messages  == BaselineOlder(h)
                     withSummary ==
                         IF older_messages # <<>>
                         THEN Append(base, SummaryTurn(summarize_messages(
                                  older_messages, c.api_provider, c.api_key, c.backend)))
                         ELSE base
                 IN  withSummary \o recent_messages
            ELSE base
    IN  Append(withHistory, ChatMessage("user", UserTurnContent(c.context, c.query)))

\* The turn appended to the list get_recent_messages returned, which is the
\* history itself when the history is shorter than the count (line 66).
HistoryAfterAssemble_alias(h, turn) ==
    IF Len(h) > 0 /\ Len(h) < RECENT_MESSAGES_LIMIT THEN Append(h, turn) ELSE h

\* messages is a fresh list; the history is only read (lines 164-192).
HistoryAfterAssemble(h, turn) == h

MaxContextTokens(total, context_tokens) ==
    TOKEN_LIMIT - (total - context_tokens) - 100

TruncateStep(text, marker) ==
    Concat(Prefix(text, (StrLen(text) * 9) \div 10), marker)

FirstUserIndex(msgs) ==
    LET S == {i \in 1..Len(msgs) : msgs[i].role = "user"}
    IN  IF S = {} THEN 0 ELSE CHOOSE i \in S : \A j \in S : i <= j

FirstSummaryIndex(msgs) ==
    LET S == {i \in 1..Len(msgs) :
                 msgs[i].role = "system" /\ HasSummaryMarker(msgs[i].content)}
    IN  IF S = {} THEN 0 ELSE CHOOSE i \in S : \A j \in S : i <= j

UpdateUserMessage(msgs, truncated_context, query) ==
    LET i == FirstUserIndex(msgs)
    IN  IF i = 0 THEN msgs
        ELSE [msgs EXCEPT ![i] =
                 ChatMessage("user", UserTurnContent(truncated_context, query))]

ReplaceSummary(msgs, summary) ==
    LET i == FirstSummaryIndex(msgs)
    IN  IF i = 0 THEN msgs ELSE [msgs EXCEPT ![i] = SummaryTurn(summary)]

ReplaceOrInsertSummary(msgs, summary) ==
    IF FirstSummaryIndex(msgs) # 0 THEN ReplaceSummary(msgs, summary)
    ELSE <<msgs[1], SummaryTurn(summary)>> \o Tail(msgs)

MaxSummaryTokens(content, total) ==
    count_tokens(content) - (total - TOKEN_LIMIT) - 50

(* ---------------------- provider dispatch (one query) -------------------- *)
SYSTEM_PROMPT == Lit(2092)

LLMAnswer == Lit(240)

Result(kind, text) == [kind |-> kind, text |-> text]

\* The exchange stored before the call's outcome is known.
query_with_provider_store_first(h, c, r) ==
    [history |-> add_exchange(h, c.query, LLMAnswer), llm_called |-> FALSE,
     result |-> Result("failed_to_get_response", <<>>)]

\* query_with_<provider> from the return of prepare_context on; "raised" is
\* an exception leaving the function.
query_with_provider(h, c, r) ==
    IF ReturnArity # UnpackTargets
    THEN [history |-> h, llm_called |-> FALSE, result |-> Result("raised", <<>>)]
    ELSE IF r.error # "None"
    THEN [history |-> h, llm_called |-> FALSE, result |-> Result(r.error, <<>>)]
    ELSE IF c.llm = "raise"
    THEN [history |-> h, llm_called |-> TRUE, result |-> Result("raised", <<>>)]
    ELSE [history |-> add_exchange(h, c.query, LLMAnswer), llm_called |-> TRUE,
          result |-> Result("answer", LLMAnswer)]

\* A provider branch of process_query without its try / except.
process_query_try_uncaught(o) == o

\* try: return query_with_<provider>(...) except Exception as e: return
\* "Error: Failed to get response from <Provider>: ..." (lines 256-259).
process_query_try(o) ==
    IF o.result.kind = "raised"
    THEN [o EXCEPT !.result = Result("failed_to_get_response", <<>>)]
    ELSE o

(* -------------------------------- inputs -------------------------------- *)
Queries == {Lit(40), Dense(1600), Dense(1601)}

SystemPrompts == {SYSTEM_PROMPT, Concat(Concat(Lit(100), SummaryMarker), Lit(100))}

Contexts == {Lit(800), Dense(9000)}

GoodKey == Some(Lit(32))

Keys == {NoneStr, Some(<<>>), Some(Blank(2)), GoodKey,
         Some(Concat(Concat(Blank(1), Lit(32)), Blank(1)))}

Backends == {"raise", "blank", "short", "long"}

ExchangeQueries == {Lit(40)}

ExchangeAnswers == {Lit(200), Dense(7100), Dense(7700)}

IsBig(text) == count_tokens(text) > 1000

BigTurns(h) == Cardinality({i \in 1..Len(h) : IsBig(h[i].content)})

\* The summarizer backend is reached only with a known provider and a key.
DirectTargets ==
    {t \in {"groq", "unknown"} \X {NoneStr, GoodKey} \X Backends :
        (t[1] \in Providers /\ t[2] = GoodKey) \/ t[3] = "raise"}

(* -------------------------------- state --------------------------------- *)
NoCall == [caller |-> "none", query |-> <<>>, system_prompt |-> <<>>,
           context |-> <<>>, api_provider |-> "none", api_key |-> NoneStr,
           backend |-> "raise", llm |-> "raise"]

NoRet == [messages |-> <<>>, error |-> "unset", final_total_tokens |-> 0]

NoPrev == [valid |-> FALSE, messages |-> <<>>, error |-> "unset"]

NoResult == Result("none", <<>>)

\* What one call of prepare_context did: the degradation steps it entered,
\* each with the total it saw, the calls of summarize_messages, and whether
\* the context loop ended at or under max_context_tokens.
NoTrace == [steps |-> <<>>, summarizer_calls |-> 0, ctx_fit |-> FALSE]

Step(step, total) == [step |-> step, total |-> total]

Op(op, query, response) == [op |-> op, query |-> query, response |-> response]

(* ----------------------- history accessors, called ---------------------- *)
\* The last call of get_recent_messages or get_older_messages, with its
\* arguments and the list it returned.
NoProbe == [op |-> "none", a |-> 0, b |-> 0, value |-> <<>>]

\* Positions before the first turn, among the first turns, at the window
\* boundary prepare_context uses (15) and past the last turn.
Indices == (0 - 2)..4 \cup {15, MaxTurns + 1}

(* --------------------------- preferences file --------------------------- *)
\* API keys as the settings dialog holds them: empty, blank, a key.
KeyTexts == {<<>>, Blank(2), Lit(20)}

\* A Fernet token by the text it decrypts to; the empty string is no token.
NoToken == [empty |-> TRUE, plain |-> <<>>]

encrypt_api_key(api_key) ==
    IF api_key = <<>> \/ Strip(api_key) = <<>> THEN NoToken
    ELSE [empty |-> FALSE, plain |-> api_key]

decrypt_api_key(encrypted_key) ==
    IF encrypted_key.empty THEN <<>> ELSE encrypted_key.plain

EmptyDict == [p \in {} |-> NoToken]

DefaultKeys == [p \in Providers |-> <<>>]

\* api_keys.json: absent, or a JSON object with the keys it holds.
NoFile ==
    [exists |-> FALSE, has_api_keys |-> FALSE, api_keys |-> EmptyDict,
     has_selected_provider |-> FALSE, selected_provider |-> "none"]

load_api_keys(f) ==
    IF f.exists
    THEN LET encrypted_keys ==
                 IF f.has_api_keys THEN f.api_keys
                 ELSE [p \in Providers |-> NoToken]
         IN  [p \in DOMAIN encrypted_keys |->
                 decrypt_api_key(encrypted_keys[p])]
    ELSE DefaultKeys

save_api_keys(f, api_keys) ==
    [exists |-> TRUE, has_api_keys |-> TRUE,
     api_keys |-> [p \in DOMAIN api_keys |-> encrypt_api_key(api_keys[p])],
     has_selected_provider |-> FALSE, selected_provider |-> "none"]

load_selected_provider(f) ==
    IF f.exists
    THEN IF f.has_selected_provider THEN f.selected_provider ELSE "groq"
    ELSE "groq"

save_selected_provider(f, provider) ==
    LET data == IF f.exists THEN f
                ELSE [NoFile EXCEPT !.has_api_keys = TRUE]
    IN  [data EXCEPT !.exists = TRUE, !.has_selected_provider = TRUE,
                     !.selected_provider = provider]

\* The encrypted keys the file holds.
PersistedKeys(f) == IF f.exists /\ f.has_api_keys THEN f.api_keys ELSE EmptyDict

\* The last call on the storage: whether it returned True, the provider of
\* the last save_selected_provider that did, and the keys held before it.
NoFsOp == [op |-> "none", ok |-> TRUE, provider |-> "none",
           keys_before |-> EmptyDict]

(* ----------------------------- chat sessions ---------------------------- *)
Sessions == {1, 2}

\* What each session's user types.
SessionPrompt(s) == Lit(40 + s)

\* "Your question is too long", the start of a response the interface
\* treats as a rejection; "R" is the class of its characters.
TooLongPrefix == <<Run("R", 25)>>

IsRejection(response) ==
    response # <<>> /\ response[1].c = "R"
        /\ response[1].n >= StrLen(TooLongPrefix)

NoResponse == <<>>

\* st.session_state of a new session, its script about to run for the first
\* time: no chat input shown yet, nothing submitted.
\*   displayed  the chat input the browser shows is enabled
\*   widget     the text submitted through it, read by the next script run
\*   pending    prompts taken from the input and not yet answered
\*   asked      prompts submitted so far
\*   prompt     the messages of the last LLM call made for this session
initialize_chat_state ==
    [messages |-> <<>>, is_thinking |-> FALSE, user_input |-> NoneStr,
     pc |-> "render", displayed |-> FALSE, widget |-> NoneStr,
     query |-> <<>>, response |-> NoResponse, pending |-> 0, asked |-> 0,
     prompt |-> <<>>]

Init ==
    /\ chat_history = <<>>
    /\ pc = "idle"
    /\ call = NoCall
    /\ messages = <<>>
    /\ total_tokens = 0
    /\ truncated = <<>>
    /\ target = 0
    /\ ret = NoRet
    /\ result = NoResult
    /\ llm_called = FALSE
    /\ hist0 = <<>>
    /\ prev = NoPrev
    /\ last_op = Op("init", <<>>, <<>>)
    /\ since_clear = "new"
    /\ trace = NoTrace
    /\ probe = NoProbe
    /\ file = NoFile
    /\ fs = NoFsOp
    /\ ui = [s \in Sessions |-> initialize_chat_state]
    /\ memory = <<>>

Locals == <<messages, total_tokens, truncated, target>>

ResetCall ==
    /\ call' = NoCall
    /\ ret' = NoRet
    /\ result' = NoResult
    /\ llm_called' = FALSE
    /\ prev' = NoPrev
    /\ trace' = NoTrace
    /\ UNCHANGED Locals

(* --------------------------- history operations ------------------------- *)
AddExchange(query, response) ==
    /\ pc = "idle"
    /\ Len(chat_history) + 2 <= MaxTurns
    /\ IsBig(response) => BigTurns(chat_history) < MaxBigTurns
    /\ chat_history' = add_exchange(chat_history, query, response)
    /\ hist0' = chat_history
    /\ last_op' = Op("add_exchange", query, response)
    /\ since_clear' = "grown"
    /\ ResetCall
    /\ probe' = NoProbe
    /\ UNCHANGED <<Frontend>>
    /\ UNCHANGED pc

ClearHistory ==
    /\ pc = "idle"
    /\ chat_history' = clear_history(chat_history)
    /\ hist0' = chat_history
    /\ last_op' = Op("clear_history", <<>>, <<>>)
    /\ since_clear' = "cleared"
    /\ ResetCall
    /\ probe' = NoProbe
    /\ UNCHANGED <<Frontend>>
    /\ UNCHANGED pc

\* The caller is done with what the finished call returned.
Forget ==
    /\ pc = "idle"
    /\ call # NoCall
    /\ hist0' = chat_history
    /\ last_op' = Op("none", <<>>, <<>>)
    /\ ResetCall
    /\ UNCHANGED <<probe, Frontend>>
    /\ UNCHANGED <<chat_history, pc, since_clear>>

(* ------------------------- prepare_context, stepwise -------------------- *)
Return(msgs, err) ==
    /\ ret' = [messages |-> msgs, error |-> err,
                final_total_tokens |-> SumTokens(msgs)]
    /\ messages' = <<>>
    /\ total_tokens' = 0
    /\ truncated' = <<>>
    /\ target' = 0
    /\ IF call.caller = "direct"
       THEN pc' = "idle" /\ last_op' = Op("prepare_context", <<>>, <<>>)
       ELSE pc' = "unpack" /\ UNCHANGED last_op

CallPrepareContext(q, s, c, t) ==
    /\ pc = "idle"
    /\ call = NoCall
    /\ call' = [caller |-> "direct", query |-> q, system_prompt |-> s,
                context |-> c, api_provider |-> t[1], api_key |-> t[2],
                backend |-> t[3], llm |-> "raise"]
    /\ pc' = "assemble"
    /\ hist0' = chat_history
    /\ ret' = NoRet
    /\ result' = NoResult
    /\ llm_called' = FALSE
    /\ prev' = NoPrev
    /\ last_op' = Op("call", <<>>, <<>>)
    /\ trace' = NoTrace
    /\ UNCHANGED <<probe, Frontend>>
    /\ UNCHANGED <<chat_history, since_clear, Locals>>

\* The same call once more, on the history as the first call left it.
Repeat ==
    /\ pc = "idle"
    /\ last_op.op = "prepare_context"
    /\ ~ prev.valid
    /\ prev' = [valid |-> TRUE, messages |-> ret.messages, error |-> ret.error]
    /\ pc' = "assemble"
    /\ last_op' = Op("call", <<>>, <<>>)
    /\ trace' = NoTrace
    /\ UNCHANGED <<probe, Frontend>>
    /\ UNCHANGED <<chat_history, call, ret, result, llm_called, hist0,
                   since_clear, Locals>>

\* Lines 143-206: the query check, the baseline prompt, its total, and the
\* choice of the first degradation step.
Assemble ==
    /\ pc = "assemble"
    /\ IF QueryTooLong(call.query)
       THEN /\ Return(<<>>, "question_too_long")
            /\ UNCHANGED <<chat_history, trace>>
       ELSE LET msgs  == Baseline(chat_history, call)
                total == SumTokens(msgs)
                max_context_tokens ==
                    MaxContextTokens(total, count_tokens(call.context))
                calls == IF BaselineOlder(chat_history) # <<>> THEN 1 ELSE 0
            IN  /\ chat_history' =
                       HistoryAfterAssemble(chat_history, msgs[Len(msgs)])
                /\ messages' = msgs
                /\ total_tokens' = total
                /\ IF total > TOKEN_LIMIT /\ Len(chat_history) < 10
                      /\ max_context_tokens > 100
                   THEN /\ pc' = "ctx_loop"
                        /\ truncated' = call.context
                        /\ target' = max_context_tokens
                        /\ trace' = [trace EXCEPT
                               !.summarizer_calls = calls,
                               !.steps = <<Step("context_truncation", total)>>]
                   ELSE /\ pc' = IF total > TOKEN_LIMIT THEN "deeper" ELSE "final"
                        /\ trace' = [trace EXCEPT !.summarizer_calls = calls]
                        /\ UNCHANGED <<truncated, target>>
                /\ UNCHANGED <<ret, last_op>>
    /\ UNCHANGED <<probe, Frontend>>
    /\ UNCHANGED <<call, result, llm_called, hist0, prev, since_clear>>

\* Lines 207-210, one iteration.
CtxTruncate ==
    /\ pc = "ctx_loop"
    /\ count_tokens(truncated) > target /\ StrLen(truncated) > 100
    /\ truncated' = TruncateStep(truncated, ContextTruncatedMarker)
    /\ UNCHANGED <<probe, Frontend>>
    /\ UNCHANGED <<chat_history, pc, call, messages, total_tokens, target, ret,
                   result, llm_called, hist0, prev, last_op, since_clear, trace>>

\* Lines 212-224, after the loop.
CtxRebuild ==
    /\ pc = "ctx_loop"
    /\ ~ (count_tokens(truncated) > target /\ StrLen(truncated) > 100)
    /\ messages' = UpdateUserMessage(messages, truncated, call.query)
    /\ total_tokens' = SumTokens(messages')
    /\ truncated' = <<>>
    /\ target' = 0
    /\ pc' = "deeper"
    /\ trace' = [trace EXCEPT !.ctx_fit = count_tokens(truncated) <= target]
    /\ UNCHANGED <<probe, Frontend>>
    /\ UNCHANGED <<chat_history, call, ret, result, llm_called, hist0, prev,
                   last_op, since_clear>>

\* Lines 226-246.
Deeper ==
    /\ pc = "deeper"
    /\ LET very_old_messages ==
               get_older_messages(chat_history, 15, Len(chat_history))
       IN  IF total_tokens > TOKEN_LIMIT /\ Len(chat_history) > 15
              /\ very_old_messages # <<>>
           THEN /\ messages' = ReplaceSummary(messages,
                       summarize_messages(very_old_messages, call.api_provider,
                                          call.api_key, call.backend))
                /\ total_tokens' = SumTokens(messages')
                /\ trace' = [trace EXCEPT
                       !.summarizer_calls = @ + 1,
                       !.steps = Append(@, Step("deeper_summarization",
                                                total_tokens))]
           ELSE UNCHANGED <<messages, total_tokens, trace>>
    /\ pc' = "aggressive"
    /\ UNCHANGED <<probe, Frontend>>
    /\ UNCHANGED <<chat_history, call, truncated, target, ret, result,
                   llm_called, hist0, prev, last_op, since_clear>>

\* Line 249 with line 251: the guard of aggressive summarization.
AggressiveApplies_any_total(total, h) == Len(h) > RECENT_MESSAGES_LIMIT

AggressiveApplies(total, h) ==
    total > TOKEN_LIMIT /\ Len(h) > RECENT_MESSAGES_LIMIT

\* Lines 248-289.
Aggressive ==
    /\ pc = "aggressive"
    /\ LET all_older_messages ==
               get_older_messages(chat_history, RECENT_MESSAGES_LIMIT,
                                  Len(chat_history))
           runs  == /\ AggressiveApplies(total_tokens, chat_history)
                    /\ all_older_messages # <<>>
           ran   == IF runs
                    THEN Append(trace.steps,
                                Step("aggressive_summarization", total_tokens))
                    ELSE trace.steps
           msgs  == IF runs
                    THEN ReplaceOrInsertSummary(messages,
                             summarize_messages(all_older_messages,
                                 call.api_provider, call.api_key, call.backend))
                    ELSE messages
           total == IF runs THEN SumTokens(msgs) ELSE total_tokens
           i     == FirstSummaryIndex(msgs)
       IN  /\ messages' = msgs
           /\ total_tokens' = total
           /\ IF runs /\ total > TOKEN_LIMIT /\ i # 0
                 /\ MaxSummaryTokens(msgs[i].content, total) > 100
              THEN /\ pc' = "sum_loop"
                   /\ truncated' = msgs[i].content
                   /\ target' = MaxSummaryTokens(msgs[i].content, total)
                   /\ trace' = [trace EXCEPT
                          !.summarizer_calls = @ + 1,
                          !.steps = Append(ran, Step("summary_truncation", total))]
              ELSE /\ pc' = "final"
                   /\ trace' = [trace EXCEPT
                          !.summarizer_calls = IF runs THEN @ + 1 ELSE @,
                          !.steps = ran]
                   /\ UNCHANGED <<truncated, target>>
    /\ UNCHANGED <<probe, Frontend>>
    /\ UNCHANGED <<chat_history, call, ret, result, llm_called, hist0, prev,
                   last_op, since_clear>>

\* Lines 290-292, one iteration.
SumTruncate ==
    /\ pc = "sum_loop"
    /\ count_tokens(truncated) > target /\ StrLen(truncated) > 200
    /\ truncated' = TruncateStep(truncated, SummaryTruncatedMarker)
    /\ UNCHANGED <<probe, Frontend>>
    /\ UNCHANGED <<chat_history, pc, call, messages, total_tokens, target, ret,
                   result, llm_called, hist0, prev, last_op, since_clear, trace>>

\* Lines 293-297, after the loop.
SumReplace ==
    /\ pc = "sum_loop"
    /\ ~ (count_tokens(truncated) > target /\ StrLen(truncated) > 200)
    /\ messages' = [messages EXCEPT ![FirstSummaryIndex(messages)] =
                       ChatMessage("system", truncated)]
    /\ truncated' = <<>>
    /\ target' = 0
    /\ pc' = "final"
    /\ UNCHANGED <<probe, Frontend>>
    /\ UNCHANGED <<chat_history, call, total_tokens, ret, result, llm_called,
                   hist0, prev, last_op, since_clear, trace>>

\* Lines 299-303.
Final ==
    /\ pc = "final"
    /\ Return(messages, "None")
    /\ UNCHANGED <<probe, Frontend>>
    /\ UNCHANGED <<chat_history, call, result, llm_called, hist0, prev,
                   since_clear, trace>>

(* ------------------------------ process_query --------------------------- *)
\* The provider called whether or not a key is there.
process_query_route_key_unchecked(context, api_provider, user_key) ==
    IF context = NoRelevantInfo THEN "no_information"
    ELSE IF api_provider \in Providers THEN "query"
    ELSE "unknown_provider"

\* The sentinel looked at after the provider and its key.
process_query_route_sentinel_late(context, api_provider, user_key) ==
    IF api_provider \in Providers
    THEN IF ~ get_key(user_key).some THEN "key_not_configured"
         ELSE IF context = NoRelevantInfo THEN "no_information" ELSE "query"
    ELSE "unknown_provider"

process_query_route(context, api_provider, user_key) ==
    IF context = NoRelevantInfo THEN "no_information"
    ELSE IF api_provider \in Providers
    THEN IF get_key(user_key).some THEN "query" ELSE "key_not_configured"
    ELSE "unknown_provider"

\* Inputs a path does not read are fixed; the four provider branches are the
\* same code, and the queries, contexts and summarizer outcomes are varied
\* on the first of them.
QueryTargets ==
    {t \in (Contexts \cup {NoRelevantInfo}) \X (Providers \cup {"unknown"})
           \X Keys \X {"raise", "short"} \X {"raise", "ok"} \X Queries :
        \/ /\ process_query_route(t[1], t[2], t[3]) = "query"
           /\ \/ t[2] = "groq"
              \/ t[1] = Lit(800) /\ t[4] = "raise" /\ t[6] = Lit(40)
        \/ /\ process_query_route(t[1], t[2], t[3]) # "query"
           /\ t[4] = "raise" /\ t[5] = "raise" /\ t[6] = Lit(40)}

CallProcessQuery(t) ==
    LET route == process_query_route(t[1], t[2], t[3])
    IN  /\ pc = "idle"
        /\ call = NoCall
        /\ call' = [caller |-> "process_query", query |-> t[6],
                    system_prompt |-> SYSTEM_PROMPT, context |-> t[1],
                    api_provider |-> t[2],
                    api_key |-> IF route = "query" THEN get_key(t[3]) ELSE t[3],
                    backend |-> t[4], llm |-> t[5]]
        /\ hist0' = chat_history
        /\ ret' = NoRet
        /\ llm_called' = FALSE
        /\ prev' = NoPrev
        /\ IF route = "query"
           THEN /\ pc' = "assemble"
                /\ result' = NoResult
                /\ last_op' = Op("call", <<>>, <<>>)
           ELSE /\ pc' = "idle"
                /\ result' = Result(route, <<>>)
                /\ last_op' = Op("process_query", <<>>, <<>>)
        /\ trace' = NoTrace
        /\ UNCHANGED <<probe, Frontend>>
        /\ UNCHANGED <<chat_history, since_clear, Locals>>

QueryReturn ==
    /\ pc = "unpack"
    /\ LET o == process_query_try(query_with_provider(chat_history, call, ret))
       IN  /\ chat_history' = o.history
           /\ result' = o.result
           /\ llm_called' = o.llm_called
           /\ since_clear' = IF o.history = chat_history THEN since_clear
                              ELSE "grown"
    /\ pc' = "idle"
    /\ last_op' = Op("process_query", <<>>, <<>>)
    /\ UNCHANGED <<probe, Frontend>>
    /\ UNCHANGED <<call, ret, hist0, prev, trace, Locals>>

(* ------------------------------ specification --------------------------- *)
PrepareSteps ==
    \/ Assemble
    \/ CtxTruncate
    \/ CtxRebuild
    \/ Deeper
    \/ Aggressive
    \/ SumTruncate
    \/ SumReplace
    \/ Final

Next ==
    \/ \E q \in ExchangeQueries, a \in ExchangeAnswers : AddExchange(q, a)
    \/ ClearHistory
    \/ Forget
    \/ \E q \in Queries, s \in SystemPrompts, c \in Contexts, t \in DirectTargets :
           CallPrepareContext(q, s, c, t)
    \/ PrepareSteps
    \/ \E t \in QueryTargets : CallProcessQuery(t)
    \/ QueryReturn

Spec == Init /\ [][Next]_vars

\* prepare_context called directly, and called again with the same arguments.
NextTwice ==
    \/ \E q \in ExchangeQueries, a \in ExchangeAnswers : AddExchange(q, a)
    \/ ClearHistory
    \/ Forget
    \/ \E q \in Queries, s \in SystemPrompts, c \in Contexts, t \in DirectTargets :
           CallPrepareContext(q, s, c, t)
    \/ Repeat
    \/ PrepareSteps

SpecTwice == Init /\ [][NextTwice]_vars

\* A truncation loop keeps executing once entered: the interpreter runs its
\* next iteration, or the statement after it, as long as there is one.
SpecLive ==
    /\ Init /\ [][Next]_vars
    /\ WF_vars(CtxTruncate \/ CtxRebuild)
    /\ WF_vars(SumTruncate \/ SumReplace)

(* --------------------------- history accessors -------------------------- *)
GetRecentMessages(count) ==
    /\ pc = "idle"
    /\ probe' = [op |-> "get_recent_messages", a |-> count, b |-> 0,
                 value |-> get_recent_messages(chat_history, count)]
    /\ UNCHANGED <<Manager, Frontend>>

GetOlderMessages(start_idx, end_idx) ==
    /\ pc = "idle"
    /\ probe' = [op |-> "get_older_messages", a |-> start_idx, b |-> end_idx,
                 value |-> get_older_messages(chat_history, start_idx, end_idx)]
    /\ UNCHANGED <<Manager, Frontend>>

\* The history store used on its own.
NextAccessors ==
    \/ \E q \in ExchangeQueries, a \in ExchangeAnswers : AddExchange(q, a)
    \/ ClearHistory
    \/ \E count \in Indices \cap Nat : GetRecentMessages(count)
    \/ \E start_idx \in Indices, end_idx \in Indices :
           GetOlderMessages(start_idx, end_idx)

SpecAccessors == Init /\ [][NextAccessors]_vars

(* ----------------------------- LocalStorage ----------------------------- *)
\* io = "error": opening the file raises IOError and the method returns False.
SaveApiKeys(api_keys, io) ==
    /\ file' = IF io = "ok" THEN save_api_keys(file, api_keys) ELSE file
    /\ fs' = [op |-> "save_api_keys", ok |-> io = "ok",
              provider |-> fs.provider, keys_before |-> EmptyDict]
    /\ UNCHANGED <<Manager, probe, ui, memory>>

SaveSelectedProvider(provider, io) ==
    /\ file' = IF io = "ok" THEN save_selected_provider(file, provider)
               ELSE file
    /\ fs' = [op |-> "save_selected_provider", ok |-> io = "ok",
              provider |-> IF io = "ok" THEN provider ELSE fs.provider,
              keys_before |-> PersistedKeys(file)]
    /\ UNCHANGED <<Manager, probe, ui, memory>>

NextStorage ==
    \/ \E api_keys \in [Providers -> KeyTexts], io \in {"ok", "error"} :
           SaveApiKeys(api_keys, io)
    \/ \E provider \in Providers, io \in {"ok", "error"} :
           SaveSelectedProvider(provider, io)

SpecStorage == Init /\ [][NextStorage]_vars

(* ----------------------------- chat sessions ---------------------------- *)
\* query_documents of src/src/app.py, on the module-level `memory`.
AppSystemPrompt == Lit(1004)

\* format_search_results for a query some documents match.
RetrievedContext == Lit(800)

\* ChatMemoryBuffer keeps the messages put into it; get() returns those that
\* fit token_limit, which the few short turns held here always do.
memory_put(m, role, content) == Append(m, ChatMessage(role, content))

memory_get(m) == m

\* [system prompt, *chat_history, "Context: {context}\n\nQuestion: {query}"]
query_documents_messages(chat_history_arg, query, context) ==
    <<ChatMessage("system", AppSystemPrompt)>>
        \o chat_history_arg
        \o <<ChatMessage("user",
                Concat(Concat(Concat(Lit(9), context), Lit(12)), query))>>

\* What the LLM sends back: an answer, or a text that happens to begin with
\* the words the interface takes for a rejection.
LLMReply(outcome, query) ==
    IF outcome = "too_long" THEN Concat(TooLongPrefix, Concat(Lit(60), query))
    ELSE Concat(Lit(200), query)

\* Every session of the process sees one buffer.
query_documents_store(m, query, generated_answer) ==
    memory_put(memory_put(m, "user", query), "assistant", generated_answer)

\* The chat input rendered enabled whatever is_thinking says.
chat_input_always_enabled(is_thinking, widget) ==
    [enabled |-> TRUE, prompt |-> widget]

\* Lines 331-336: a disabled input while thinking, else the input and what
\* was submitted through it.
chat_input(is_thinking, widget) ==
    IF is_thinking THEN [enabled |-> FALSE, prompt |-> NoneStr]
    ELSE [enabled |-> TRUE, prompt |-> widget]

\* The user sends a prompt through the chat input the browser shows;
\* Streamlit runs the script again with it.
Submit(s) ==
    /\ ui[s].displayed
    /\ ui[s].pc \in {"waiting", "render"}
    /\ ui[s].widget = NoneStr
    /\ ui[s].asked < MaxPrompts
    /\ ui' = [ui EXCEPT ![s] = [@ EXCEPT !.widget = Some(SessionPrompt(s)),
                                         !.asked = @ + 1,
                                         !.pc = "render"]]
    /\ UNCHANGED <<Manager, probe, file, fs, memory>>

\* The user does anything else on the page: the script runs again.
Interact(s) ==
    /\ ui[s].pc = "waiting"
    /\ ui' = [ui EXCEPT ![s] = [@ EXCEPT !.pc = "render"]]
    /\ UNCHANGED <<Manager, probe, file, fs, memory>>

\* show_chat_interface, lines 329-344: the chat input, and a submitted
\* prompt stored with is_thinking set before st.rerun().
RenderInput(s) ==
    LET u == ui[s]
        r == chat_input(u.is_thinking, u.widget)
    IN  /\ u.pc = "render"
        /\ ui' = [ui EXCEPT ![s] =
               IF Truthy(r.prompt)
               THEN [u EXCEPT !.displayed = r.enabled,
                              !.widget = NoneStr,
                              !.is_thinking = TRUE,
                              !.user_input = r.prompt,
                              !.pending = @ + 1,
                              !.pc = "render"]
               ELSE [u EXCEPT !.displayed = r.enabled,
                              !.widget = NoneStr,
                              !.pc = IF Truthy(u.user_input) THEN "take"
                                     ELSE "waiting"]]
        /\ UNCHANGED <<Manager, probe, file, fs, memory>>

\* Lines 344-357: the stored input taken and cleared, the user message shown.
TakeInput(s) ==
    LET u == ui[s]
    IN  /\ u.pc = "take"
        /\ ui' = [ui EXCEPT ![s] =
               [u EXCEPT !.query = u.user_input.text,
                         !.user_input = NoneStr,
                         !.messages = Append(@, ChatMessage("user",
                                                   u.user_input.text)),
                         !.pc = "query"]]
        /\ UNCHANGED <<Manager, probe, file, fs, memory>>

\* Lines 385-393, the call of query_documents: the retrieval or the LLM call
\* raises and the script run ends there, or the answer is stored and
\* returned.
QueryDocuments(s, outcome) ==
    LET u == ui[s]
        prompt == query_documents_messages(memory_get(memory), u.query,
                                           RetrievedContext)
        generated_answer == LLMReply(outcome, u.query)
    IN  /\ u.pc = "query"
        /\ CASE outcome = "retrieval_raises" ->
                  /\ ui' = [ui EXCEPT ![s] = [u EXCEPT !.pc = "waiting"]]
                  /\ UNCHANGED memory
             [] outcome = "llm_raises" ->
                  /\ ui' = [ui EXCEPT ![s] = [u EXCEPT !.prompt = prompt,
                                                       !.pc = "waiting"]]
                  /\ UNCHANGED memory
             [] OTHER ->
                  /\ ui' = [ui EXCEPT ![s] =
                         [u EXCEPT !.prompt = prompt,
                                   !.response = generated_answer,
                                   !.pc = "respond"]]
                  /\ memory' = query_documents_store(memory, u.query,
                                                     generated_answer)
        /\ UNCHANGED <<Manager, probe, file, fs>>

\* Lines 396-438 and 544: a rejection shown and the user message removed, or
\* the answer appended; is_thinking reset and st.rerun().
HandleResponse(s) ==
    LET u == ui[s]
    IN  /\ u.pc = "respond"
        /\ ui' = [ui EXCEPT ![s] =
               [u EXCEPT !.messages =
                             IF IsRejection(u.response)
                             THEN SubSeq(@, 1, Len(@) - 1)
                             ELSE Append(@, ChatMessage("assistant",
                                                        u.response)),
                         !.is_thinking = FALSE,
                         !.response = NoResponse,
                         !.pending = @ - 1,
                         !.pc = "render"]]
        /\ UNCHANGED <<Manager, probe, file, fs, memory>>

QueryOutcomes == {"retrieval_raises", "llm_raises", "answer", "too_long"}

ScriptRun(s) ==
    \/ RenderInput(s)
    \/ TakeInput(s)
    \/ \E outcome \in QueryOutcomes : QueryDocuments(s, outcome)
    \/ HandleResponse(s)

NextChat ==
    \/ \E s \in Sessions : Submit(s)
    \/ \E s \in Sessions : Interact(s)
    \/ \E s \in Sessions : RenderInput(s)
    \/ \E s \in Sessions : TakeInput(s)
    \/ \E s \in Sessions, outcome \in QueryOutcomes : QueryDocuments(s, outcome)
    \/ \E s \in Sessions : HandleResponse(s)

SpecChat == Init /\ [][NextChat]_vars

\* A script run that has started goes on to its end.
SpecChatLive ==
    /\ Init /\ [][NextChat]_vars
    /\ \A s \in Sessions : WF_vars(ScriptRun(s))

(* -------------------------------- claims -------------------------------- *)
Turn(role, content) == [role |-> role, content |-> content]

ExpectedUserTurn(context, query) ==
    Turn("user", Concat(Lit(9), Concat(context, Concat(Lit(12),
                  Concat(query, Lit(139))))))

OverThreshold(query) ==
    count_tokens(query) * 10 > TOKEN_LIMIT * QUESTION_THRESHOLD_TENTHS

InPrepareContext ==
    pc \in {"assemble", "ctx_loop", "deeper", "aggressive", "sum_loop", "final"}

\* C1: whenever prepare_context returns success (error None), the token
\* counts of the returned messages sum to at most token_limit.
C1_SuccessWithinLimit ==
    ret.error = "None" => SumTokens(ret.messages) <= TOKEN_LIMIT

\* C2: a prompt still over token_limit after every degradation step makes
\* prepare_context return the "history too long" error and no message list,
\* and no LLM call is made for it.
C2_RefusalWhenStillOver ==
    (ret.error # "unset" /\ ret.final_total_tokens > TOKEN_LIMIT)
        => (ret.error = "history_too_long" /\ ret.messages = <<>>
            /\ ~ llm_called)

\* C3: prepare_context returns the "question too long" error with an empty
\* message list exactly when count_tokens(query) > token_limit *
\* question_threshold, whatever the context and the history.
C3_RejectedExactlyOverThreshold ==
    ret.error # "unset"
        => ((ret.error = "question_too_long" /\ ret.messages = <<>>)
            <=> OverThreshold(call.query))

C3_Witness ==
    /\ ret.error = "question_too_long"
    /\ count_tokens(call.query) = 1601
    /\ Len(chat_history) > RECENT_MESSAGES_LIMIT
    /\ count_tokens(call.context) > TOKEN_LIMIT

\* C4: prepare_context leaves the conversation history as it found it, on
\* the rejection path, on success without degradation and on success after
\* degradation steps.
C4_HistoryUnchanged ==
    (InPrepareContext \/ pc = "unpack" \/ last_op.op = "prepare_context")
        => chat_history = hist0

C4_Witness ==
    /\ last_op.op = "prepare_context"
    /\ ret.error = "None"
    /\ chat_history # <<>>
    /\ ret.messages # Baseline(chat_history, call)

\* C5: add_exchange(query, answer) appends exactly two turns, a user turn
\* holding query and then an assistant turn holding answer, and leaves the
\* turns already stored unchanged and in place.
C5_AddExchangeAppendsTwo ==
    last_op.op = "add_exchange"
        => chat_history = hist0 \o <<Turn("user", last_op.query),
                                     Turn("assistant", last_op.response)>>

C5_Witness ==
    /\ last_op.op = "add_exchange"
    /\ Len(hist0) >= 2
    /\ last_op.query # last_op.response

\* C6: a rejected or failed query never changes the history: process_query
\* stores an exchange only after prepare_context returned no error and the
\* LLM call returned an answer.
C6_FailedQueryKeepsHistory ==
    call.caller = "process_query"
        => \/ chat_history = hist0
           \/ /\ pc = "idle"
              /\ ret.error = "None"
              /\ call.llm = "ok"
              /\ llm_called
              /\ result.kind = "answer"

C6_Witness ==
    /\ last_op.op = "process_query"
    /\ result.kind = "failed_to_get_response"
    /\ chat_history # <<>>
    /\ chat_history = hist0

\* C7: for a query that passes context assembly and whose LLM call succeeds,
\* process_query returns the answer text and the history grows by the raw
\* query followed by the answer, for each provider.
C7_AnswerReturnedAndStored ==
    (last_op.op = "process_query" /\ ret.error = "None" /\ call.llm = "ok")
        => /\ result = Result("answer", LLMAnswer)
           /\ chat_history = hist0 \o <<Turn("user", call.query),
                                        Turn("assistant", LLMAnswer)>>

C9_ClearedHistoryIsNew ==
    /\ last_op.op = "clear_history"
           => /\ \A n \in (0 - MaxTurns - 1)..(MaxTurns + 1) :
                    get_recent_messages(chat_history, n) = <<>>
              /\ \A a, b \in (0 - MaxTurns - 1)..(MaxTurns + 1) :
                    get_older_messages(chat_history, a, b) = <<>>
              /\ get_chat_history_token_count(chat_history) = 0
    /\ (since_clear = "cleared" /\ ret.error = "None")
           => /\ Len(ret.messages) = 2
              /\ ret.messages[1] = Turn("system", call.system_prompt)
              /\ ret.messages[2].role = "user"

C9_Witness ==
    /\ since_clear = "cleared"
    /\ last_op.op = "prepare_context"
    /\ ret.error = "None"

\* C10 as stated: with an empty history and a system prompt, context and
\* query whose assembled total is within token_limit, prepare_context
\* returns the system turn followed by the user turn, and nothing else.
C10_EmptyHistoryTwoMessages ==
    (last_op.op = "prepare_context" /\ hist0 = <<>>
       /\ SumTokens(<<Turn("system", call.system_prompt),
                      ExpectedUserTurn(call.context, call.query)>>) <= TOKEN_LIMIT)
        => ret.messages = <<Turn("system", call.system_prompt),
                            ExpectedUserTurn(call.context, call.query)>>

\* C10 amended: the same, for a query that is not over the question
\* threshold (count_tokens(query) <= token_limit * question_threshold).
C10_EmptyHistoryTwoMessagesAccepted ==
    (last_op.op = "prepare_context" /\ hist0 = <<>>
       /\ ~ OverThreshold(call.query)
       /\ SumTokens(<<Turn("system", call.system_prompt),
                      ExpectedUserTurn(call.context, call.query)>>) <= TOKEN_LIMIT)
        => /\ ret.error = "None"
           /\ ret.messages = <<Turn("system", call.system_prompt),
                               ExpectedUserTurn(call.context, call.query)>>

C10_Witness ==
    /\ last_op.op = "prepare_context"
    /\ hist0 = <<>>
    /\ count_tokens(call.query) = 1600
    /\ ret.error = "None"
    /\ Len(ret.messages) = 2
    /\ SumTokens(ret.messages) <= TOKEN_LIMIT

(* ------------------------- claims: prompt shape -------------------------- *)
\* A turn whose content opens with "Previous conversation summary".
IsSummaryTurn(m) ==
    /\ m.role = "system"
    /\ m.content # <<>>
    /\ m.content[1].c = "M"
    /\ m.content[1].n >= StrLen(SummaryMarker)

SummaryTurns(msgs) == {i \in 1..Len(msgs) : IsSummaryTurn(msgs[i])}

\* The recent_messages_limit most recent turns of a history.
RecentTurns(h) ==
    SubSeq(h, Max(1, Len(h) - RECENT_MESSAGES_LIMIT + 1), Len(h))

\* The turns older than the recent_messages_limit most recent ones.
OlderThanRecent(h) == SubSeq(h, 1, Len(h) - RECENT_MESSAGES_LIMIT)

RECURSIVE Drop(_, _)
Drop(t, k) ==
    IF k <= 0 \/ t = <<>> THEN t
    ELSE IF t[1].n <= k THEN Drop(Tail(t), k - t[1].n)
    ELSE <<Run(t[1].c, t[1].n - k)>> \o Tail(t)

EndsWith(t, s) ==
    StrLen(t) >= StrLen(s) /\ StrLen(Drop(t, StrLen(t) - StrLen(s))) = StrLen(s)
        /\ Concat(Prefix(t, StrLen(t) - StrLen(s)), s) = t

\* "\n\nQuestion: {query}\n\nRemember: ..." with the query in full.
QueryTail(query) == Concat(Lit(12), Concat(query, Lit(139)))

HasStep(name) == \E i \in 1..Len(trace.steps) : trace.steps[i].step = name

SummaryOf(window) ==
    SummaryTurn(summarize_messages(window, call.api_provider, call.api_key,
                                   call.backend))

\* C11: for a history longer than recent_messages_limit the messages
\* returned on success hold exactly one Summary Turn and hold the
\* recent_messages_limit most recent history turns verbatim, in order.
C11_OneSummaryRecentVerbatim ==
    (ret.error = "None" /\ Len(hist0) > RECENT_MESSAGES_LIMIT)
        => /\ Cardinality(SummaryTurns(ret.messages)) = 1
           /\ \E i \in 1..Len(ret.messages) :
                  /\ i + RECENT_MESSAGES_LIMIT - 1 <= Len(ret.messages)
                  /\ SubSeq(ret.messages, i, i + RECENT_MESSAGES_LIMIT - 1)
                         = RecentTurns(hist0)

\* C12: every message list returned on success is the system prompt, then
\* an optional Summary Turn at position 2, then the recent turns verbatim,
\* then the current-query user turn, which is last.
C12_PromptOrder ==
    ret.error = "None"
        => LET m == ret.messages
               n == Len(m)
               first == IF 2 \in SummaryTurns(m) THEN 3 ELSE 2
           IN  /\ n >= 2
               /\ m[1] = Turn("system", call.system_prompt)
               /\ m[n].role = "user"
               /\ EndsWith(m[n].content, QueryTail(call.query))
               /\ SummaryTurns(m) \subseteq {2}
               /\ SubSeq(m, first, n - 1) = RecentTurns(hist0)

\* C13: when deeper (step 5) or aggressive (step 6) summarization ran, the
\* Summary Turn returned is the summary of the window of the last of them:
\* the turns beyond the first 15 for step 5, the turns older than the
\* recent_messages_limit most recent ones for step 6.
C13_SummaryOfLastWindow ==
    (ret.error = "None" /\ ~ HasStep("summary_truncation")
       /\ (HasStep("deeper_summarization") \/ HasStep("aggressive_summarization")))
        => LET window == IF HasStep("aggressive_summarization")
                         THEN OlderThanRecent(hist0)
                         ELSE SubSeq(hist0, 16, Len(hist0))
           IN  \E i \in 1..Len(ret.messages) : ret.messages[i] = SummaryOf(window)

(* ---------------------- claims: failures and errors ---------------------- *)
\* The summarizer backend gives no usable text for this call.
BackendFails(c) ==
    \/ c.api_provider \notin Providers
    \/ ~ Truthy(c.api_key) \/ Strip(c.api_key.text) = <<>>
    \/ c.backend \in {"raise", "blank"}

\* "Previous conversation summary:\n" and one "User: ..." / "Assistant: ..."
\* line per turn, for at most ten turns.
PlainFallback(window) ==
    Concat(Concat(SummaryMarker, Lit(2)),
           Join([i \in 1..Len(window) |->
                    Concat(Lit(IF window[i].role = "user" THEN 6 ELSE 11),
                           window[i].content)], Lit(1)))

\* The lists of turns prepare_context passes to summarize_messages (lines
\* 171, 229, 253), the empty list and the whole history.
SummarizedWindows(h) ==
    {<<>>, h, SubSeq(h, RECENT_MESSAGES_LIMIT + 1, Min(Len(h), 15)),
     SubSeq(h, 16, Len(h)), SubSeq(h, RECENT_MESSAGES_LIMIT + 1, Len(h))}

\* C14: summarize_messages returns a non-empty string for every list of
\* turns and every outcome of the summarizer backend; when the backend gives
\* nothing (no key, unknown provider, exception, empty response) the result
\* is the deterministic fallback, and prepare_context still returns success.
C14_SummarizerAlwaysAnswers ==
    (last_op.op = "prepare_context" /\ ~ OverThreshold(call.query))
        => /\ ret.error = "None"
           /\ \A window \in SummarizedWindows(hist0) :
                  LET text == summarize_messages(window, call.api_provider,
                                                 call.api_key, call.backend)
                  IN  /\ StrLen(text) > 0
                      /\ count_tokens(text) > 0
                      /\ BackendFails(call)
                             => /\ text = FallbackSummary(
                                       [i \in 1..Len(window) |->
                                           FormatMessage(window[i])])
                                /\ Len(window) <= 10
                                       => text = PlainFallback(window)
                      /\ Len(hist0) > RECENT_MESSAGES_LIMIT
                             => \E i \in 1..Len(ret.messages) :
                                    IsSummaryTurn(ret.messages[i])

C14_Witness ==
    /\ last_op.op = "prepare_context"
    /\ ret.error = "None"
    /\ call.api_key = GoodKey
    /\ call.backend = "blank"
    /\ Len(hist0) > 10
    /\ ret.final_total_tokens <= TOKEN_LIMIT

\* What process_query hands back as its return value.
ReturnedKinds ==
    {"answer", "no_information", "key_not_configured", "unknown_provider",
     "failed_to_get_response", "question_too_long"}

\* C15: process_query never raises: every finished call, whatever the
\* provider identifier and whether context assembly or the provider call
\* failed, has a returned string as its result.
C15_NeverRaises ==
    /\ result.kind # "raised"
    /\ last_op.op = "process_query" => result.kind \in ReturnedKinds

C15_Witness ==
    /\ last_op.op = "process_query"
    /\ result.kind = "failed_to_get_response"
    /\ call.api_provider = "deepseek"
    /\ call.llm = "raise"

\* C16 as stated: with the selected provider's key missing or blank,
\* process_query returns the "API key not configured" error with no context
\* assembly and no LLM call, and an unknown provider returns its own error
\* with no call either.
C16_MissingKeyConfigError ==
    last_op.op = "process_query"
        => /\ (call.api_provider \in Providers /\ ~ get_key(call.api_key).some)
                  => /\ result.kind = "key_not_configured"
                     /\ result.kind # "failed_to_get_response"
                     /\ ~ llm_called
                     /\ ret = NoRet
           /\ call.api_provider \notin Providers
                  => /\ result.kind = "unknown_provider"
                     /\ ~ llm_called
                     /\ ret = NoRet

\* C16 amended: the same, when the retrieved context is not the
\* "No relevant information found in the documents." sentinel.
C16_MissingKeyConfigErrorWithContext ==
    (last_op.op = "process_query" /\ call.context # NoRelevantInfo)
        => /\ (call.api_provider \in Providers /\ ~ get_key(call.api_key).some)
                  => /\ result.kind = "key_not_configured"
                     /\ result.kind # "failed_to_get_response"
                     /\ ~ llm_called
                     /\ ret = NoRet
           /\ call.api_provider \notin Providers
                  => /\ result.kind = "unknown_provider"
                     /\ ~ llm_called
                     /\ ret = NoRet

C16_Witness ==
    /\ last_op.op = "process_query"
    /\ result.kind = "key_not_configured"
    /\ call.api_provider = "gemini"
    /\ call.api_key = Some(Blank(2))
    /\ chat_history # <<>>

(* ----------------------- claims: degradation ladder ---------------------- *)
\* C17: in the baseline prompt the Summary Turn is computed from exactly
\* the turns older than the recent_messages_limit most recent ones, and
\* those most recent turns follow it verbatim: every history turn is
\* summarized or verbatim, none both and none neither.
C17_BaselinePartition ==
    (ret.error = "None" /\ trace.steps = <<>>
       /\ Len(hist0) > RECENT_MESSAGES_LIMIT)
        => /\ ret.messages[2] = SummaryOf(OlderThanRecent(hist0))
           /\ SubSeq(ret.messages, 3, Len(ret.messages) - 1) = RecentTurns(hist0)

StepRank(name) ==
    CASE name = "context_truncation"       -> 1
      [] name = "deeper_summarization"     -> 2
      [] name = "aggressive_summarization" -> 3
      [] name = "summary_truncation"       -> 4

\* C18: the degradation steps run in the order context truncation, deeper
\* summarization, aggressive summarization, summary truncation; a step is
\* entered only with the current total above token_limit; a baseline that
\* fits is returned as it is, with at most one call of the summarizer.
C18_LadderOrder ==
    /\ \A i \in 1..Len(trace.steps) : trace.steps[i].total > TOKEN_LIMIT
    /\ \A i, j \in 1..Len(trace.steps) :
           i < j => StepRank(trace.steps[i].step) < StepRank(trace.steps[j].step)
    /\ (ret.error = "None" /\ SumTokens(Baseline(hist0, call)) <= TOKEN_LIMIT)
           => /\ ret.messages = Baseline(hist0, call)
              /\ trace.steps = <<>>
              /\ trace.summarizer_calls <= 1

C18_Witness ==
    /\ ret.error = "None"
    /\ Len(trace.steps) = 1
    /\ trace.steps[1].step = "deeper_summarization"
    /\ ret.final_total_tokens <= TOKEN_LIMIT

InTruncationLoop == pc \in {"ctx_loop", "sum_loop"}

\* C19: prepare_context terminates: the context-truncation loop of step 4
\* and the summary-truncation loop of step 7, once entered, are left after
\* finitely many iterations.
C19_Terminates == InTruncationLoop ~> ~ InTruncationLoop

\* C20: context truncation is entered exactly when the baseline is over
\* token_limit, the history has fewer than 10 turns and max_context_tokens
\* is above 100; when its loop ends with the context at or under
\* max_context_tokens, the rebuilt prompt still ends with the query in full
\* and its recomputed total is at most token_limit.
C20_ContextTruncation ==
    /\ (pc \in {"ctx_loop", "deeper", "aggressive", "sum_loop", "final"}
          \/ ret.error = "None")
           => LET base == SumTokens(Baseline(hist0, call))
              IN  HasStep("context_truncation")
                      <=> /\ base > TOKEN_LIMIT
                          /\ Len(hist0) < 10
                          /\ TOKEN_LIMIT - (base - count_tokens(call.context))
                                 - 100 > 100
    /\ (pc = "deeper" /\ HasStep("context_truncation") /\ trace.ctx_fit)
           => /\ total_tokens = SumTokens(messages)
              /\ EndsWith(messages[Len(messages)].content, QueryTail(call.query))
              /\ total_tokens <= TOKEN_LIMIT

(* ------------------------ claims: fallback summary ----------------------- *)
\* "Previous conversation summary:\n", the first five and the last five
\* "User: ..." / "Assistant: ..." lines around the elision marker, and
\* "\n\nIn total: {count} exchanges summarized."
ElidedFallback(window, count) ==
    LET n     == Len(window)
        lines == [i \in 1..n |->
                     Concat(Lit(IF window[i].role = "user" THEN 6 ELSE 11),
                            window[i].content)]
    IN  Concat(Concat(Concat(Concat(Concat(SummaryMarker, Lit(2)),
            Join(SubSeq(lines, 1, 5), Lit(1))),
            Lit(29)),
            Join(SubSeq(lines, n - 4, n), Lit(1))),
            Concat(Concat(Lit(12), Digits(count)), Lit(22)))

\* The list of older turns the first summarization step is given.
OlderWindow(h) == SubSeq(h, RECENT_MESSAGES_LIMIT + 1, Min(Len(h), 15))

\* C21 (as the claim states it): the fallback summary of n turns is all n
\* formatted turns when n is at most 10; otherwise the first 5, the elision
\* marker, the last 5 and the count of the omitted exchanges, n - 10.
C21_FallbackCountsOmitted ==
    (last_op.op = "prepare_context" /\ BackendFails(call))
        => \A window \in SummarizedWindows(hist0) :
               LET text == summarize_messages(window, call.api_provider,
                                              call.api_key, call.backend)
               IN  IF Len(window) <= 10
                   THEN text = PlainFallback(window)
                   ELSE text = ElidedFallback(window, Len(window) - 10)

\* C21 (amended): the fallback summary of n turns is all n formatted turns
\* when n is at most 10; otherwise the first 5, the elision marker, the last
\* 5 and the total number n of turns given to the summarizer.
C21_FallbackCountsAll ==
    (last_op.op = "prepare_context" /\ BackendFails(call))
        => \A window \in SummarizedWindows(hist0) :
               LET text == summarize_messages(window, call.api_provider,
                                              call.api_key, call.backend)
               IN  IF Len(window) <= 10
                   THEN text = PlainFallback(window)
                   ELSE text = ElidedFallback(window, Len(window))

C21_Witness ==
    /\ last_op.op = "prepare_context"
    /\ BackendFails(call)
    /\ ret.error = "None"
    /\ trace.summarizer_calls >= 1
    /\ Len(OlderWindow(hist0)) > 10
    /\ \E i \in 1..Len(ret.messages) :
           ret.messages[i]
               = SummaryTurn(ElidedFallback(OlderWindow(hist0),
                                            Len(OlderWindow(hist0))))

(* ------------------------ claims: history accessors ---------------------- *)
\* C22: for every history and every n >= 0, get_recent_messages(n) returns
\* the last min(n, len(history)) turns in history order: no turn for n = 0,
\* the whole history when n exceeds its length.
C22_RecentIsLastN ==
    probe.op = "get_recent_messages"
        => LET len == Len(chat_history)
           IN  probe.value = SubSeq(chat_history, len - Min(probe.a, len) + 1,
                                    len)

\* C23: for every history and every (start, end), get_older_messages returns
\* the turns at positions max(0, start) up to but excluding
\* min(len(history), end), in order, and the empty sequence when start is at
\* or past the end of the history or when end <= start.
C23_OlderIsSlice ==
    probe.op = "get_older_messages"
        => LET len == Len(chat_history)
               lo  == Max(0, probe.a)
               hi  == Min(len, probe.b)
           IN  probe.value = IF probe.a >= len \/ probe.b <= probe.a
                             THEN <<>>
                             ELSE SubSeq(chat_history, lo + 1, hi)

(* ------------------------- claims: preferences file ---------------------- *)
\* C30: save_api_keys leaves the persisted selected provider unchanged:
\* after save_selected_provider(p) and any number of save_api_keys calls,
\* load_selected_provider returns p; and save_selected_provider leaves the
\* persisted API keys unchanged.
C30_SavesAreIndependent ==
    /\ fs.provider # "none" => load_selected_provider(file) = fs.provider
    /\ fs.op = "save_selected_provider"
           => PersistedKeys(file) = fs.keys_before

(* --------------------- claims: sentinel, prompt, history ----------------- *)
\* C24: when the retrieved context is the 'No relevant information found in
\* the documents.' sentinel, process_query returns the fixed 'I don't have
\* enough information' reply for every provider and key state, without
\* assembling a prompt, calling any LLM, or changing the history.
C24_SentinelShortCircuits ==
    (last_op.op = "process_query" /\ call.context = NoRelevantInfo)
        => /\ result = Result("no_information", <<>>)
           /\ ret = NoRet
           /\ trace = NoTrace
           /\ ~ llm_called
           /\ chat_history = hist0

C24_Witness ==
    /\ last_op.op = "process_query"
    /\ call.context = NoRelevantInfo
    /\ result.kind = "no_information"
    /\ call.api_provider \in Providers
    /\ ~ get_key(call.api_key).some
    /\ chat_history # <<>>

\* C27: in every message list prepare_context returns on success, the first
\* message is a system-role message whose content is the system_prompt
\* argument exactly, for every system prompt (one containing the words
\* 'Previous conversation summary' too) and whichever degradation steps ran.
C27_SystemPromptFirst ==
    ret.error = "None"
        => /\ ret.messages # <<>>
           /\ ret.messages[1] = Turn("system", call.system_prompt)

\* C28: after any sequence of process_query and clear_history calls (and of
\* stored exchanges) from an empty history, the history has even length and
\* alternates user, assistant from its first turn; it never holds a
\* system-role turn or two neighbouring turns of one role.
C28_HistoryAlternates ==
    /\ Len(chat_history) % 2 = 0
    /\ \A i \in 1..Len(chat_history) :
           chat_history[i].role = IF i % 2 = 1 THEN "user" ELSE "assistant"

C28_Witness ==
    /\ last_op.op = "process_query"
    /\ result.kind # "none"
    /\ call.context # NoRelevantInfo
    /\ Len(chat_history) >= 4
    /\ since_clear = "grown"

(* --------------------------- claims: chat sessions ----------------------- *)
\* What one session's own turns can hold: its prompt and the answers to it.
OwnTexts(s) ==
    {SessionPrompt(s)}
        \cup {LLMReply(outcome, SessionPrompt(s)) : outcome \in QueryOutcomes}

\* C25: each chat session has its own conversation history: a turn added by
\* one session's successful query never appears in a prompt assembled for
\* the other session.
C25_SessionsIsolated ==
    \A s \in Sessions :
        \A i \in 2..(Len(ui[s].prompt) - 1) :
            ui[s].prompt[i].content \in OwnTexts(s)

\* C26: within one session at most one turn is in flight: from the moment a
\* prompt is taken (is_thinking set) until its response has been handled the
\* chat input is disabled, and no second prompt is accepted or sent to
\* query_documents.
C26_OneTurnInFlight ==
    \A s \in Sessions :
        /\ ui[s].pending <= 1
        /\ ui[s].pc \in {"take", "query", "respond"}
               => /\ ui[s].is_thinking
                  /\ ~ ui[s].displayed
                  /\ ui[s].pending = 1
        /\ (ui[s].is_thinking /\ ui[s].pc = "waiting") => ~ ui[s].displayed

\* A second prompt was submitted while the first was on its way, and only
\* the first reached query_documents.
C26_Witness ==
    \E s \in Sessions :
        /\ ui[s].pc = "query"
        /\ ui[s].asked = 2
        /\ ui[s].pending = 1
        /\ Len(ui[s].messages) = 1
        /\ memory = <<>>

\* C29: after every submitted prompt the chat UI eventually returns to the
\* idle state, is_thinking False and no stored user_input: on the success
\* path, on the rejection path and when query_documents fails.
C29_BackToIdle ==
    \A s \in Sessions :
        ui[s].is_thinking
            ~> (~ ui[s].is_thinking /\ ~ Truthy(ui[s].user_input))

====
